---- MODULE Spec2Model ----
(***************************************************************************)
(* Model of the PureTone karaoke pipeline: the Streamlit orchestrator      *)
(* (src/app/app.py) and the engine wrappers it calls                       *)
(* (src/app/karaoke_engine.py).  One behaviour is either one pipeline run  *)
(* (entry = "app") or one direct call of separate_vocals (entry =          *)
(* "direct"), the way a unit test or another caller uses the library.      *)
(* External engines (ffprobe, ffmpeg, spleeter, whisper) are               *)
(* nondeterministic: every invocation may exit zero or non-zero, and an    *)
(* invocation whose input file is missing always exits non-zero.           *)
(***************************************************************************)
EXTENDS Integers, Sequences, FiniteSets, TLC

\* ------------------------------------------------------------------ bounds
\* Longest log of engine invocations kept for one behaviour.  A run of the
\* program makes at most 11 invocations, so the guard never binds on it.
MaxCalls == 12

\* ------------------------------------------------------- program constants
\* app.py:74  get_video_duration returns None when the query fails
None == -1
\* app.py:112  "if duration and duration > 300"
WarnDuration == 300
\* app.py:136  "duration > 180 and whisper_model != 'tiny'"
TinyDuration == 180
\* karaoke_engine.py:80  "if duration > 180"
DownsampleDuration == 180

\* Durations (seconds) of the uploaded media: below, at and above the 180 s
\* threshold, and above the 300 s warning threshold.
Durations == {60, 180, 181, 301}

WhisperModels == {"tiny", "base"}                           \* app.py:38-43
SeparationModels == {"spleeter:2stems", "spleeter:4stems"}  \* app.py:45-50

\* ------------------------------------------------------------------- paths
\* A path is a sequence of components; a component is a name and an
\* extension (empty for directories).
D(name) == [stem |-> name, ext |-> ""]
F(name, e) == [stem |-> name, ext |-> e]
NoPath == << >>

\* os.path.join(dir, component)
Join(dir, comp) == Append(dir, comp)
\* os.path.basename(path)
BaseName(path) == path[Len(path)]
\* os.path.dirname(path)
DirName(path) == SubSeq(path, 1, Len(path) - 1)
\* os.path.splitext(component)[0]
SplitExt0(comp) == comp.stem

\* app.py:94  temp_dir = tempfile.mkdtemp()
temp_dir == << D("tmp") >>
\* app.py:95  output_dir = os.path.join(temp_dir, "output")
output_dir == Join(temp_dir, D("output"))
\* app.py:105
input_path == Join(temp_dir, F("input_video", "mp4"))
\* app.py:118
audio_path == Join(temp_dir, F("original_audio", "wav"))
\* app.py:148
subtitle_path == Join(temp_dir, F("lyrics", "srt"))
\* app.py:154
output_path == Join(output_dir, F("karaoke_output", "mp4"))

\* Audio files a direct caller of separate_vocals passes: they live outside
\* the output directory.
DirectAudio == { Join(<< D("in") >>, F("original_audio", "wav")),
                 Join(<< D("in") >>, F("downsampled_audio", "wav")) }

\* karaoke_engine.py:22,39,49 and app.py:128  '"4stems" in model'
Is4Stems(model) == model = "spleeter:4stems"

\* karaoke_engine.py:25
SvTempAudio(out) == Join(out, F("downsampled_audio", "wav"))
\* karaoke_engine.py:82  (temp_dir = os.path.dirname(audio_path))
TrTempAudio(audio) == Join(DirName(audio), F("downsampled_for_whisper", "wav"))

\* The separation engine writes its stems into <outDir>/<base name of the
\* file it was given>/<stem>.wav.
SpleeterDir(out, given) == Join(out, D(SplitExt0(BaseName(given))))
SpleeterStems(model) ==
    IF Is4Stems(model) THEN {"vocals", "drums", "bass", "other"}
                       ELSE {"vocals", "accompaniment"}
SpleeterFiles(out, given, model) ==
    { Join(SpleeterDir(out, given), F(s, "wav")) : s \in SpleeterStems(model) }

\* karaoke_engine.py:46  base_name, and the paths built from it (49-54, 62)
SvBaseDirOfTemp(out, audio) == Join(out, D("downsampled_audio"))
SvBaseDir(out, audio) == Join(out, D(SplitExt0(BaseName(audio))))
SvStem(out, audio, s) == Join(SvBaseDir(out, audio), F(s, "wav"))

\* The decision of the except clause of separate_vocals
\* (karaoke_engine.py:37-43): retry with 2stems, or re-raise.
SvFallbackAlways(model) == TRUE
SvFallback(model) == Is4Stems(model)

\* The decision of the orchestrator's except clause (app.py:127-133).
OrchFallback(model) == Is4Stems(model)

\* app.py:136  the transcription model policy
UseTiny(d, requested) == d # None /\ d # 0 /\ d > TinyDuration /\ requested # "tiny"
ActualModel(d, requested) == IF UseTiny(d, requested) THEN "tiny" ELSE requested

\* karaoke_engine.py:80  downsample before transcription
NeedsDownsampleInclusive(d) == d >= DownsampleDuration
NeedsDownsample(d) == d > DownsampleDuration

\* karaoke_engine.py:41  the recursive call of the except clause: the same
\* audio_path and output_dir, with spleeter:2stems
SvRetryOnTemp(s) == [s EXCEPT !.model = "spleeter:2stems", !.audio_path = s.input,
                              !.input = NoPath]
SvRetry(s) == [s EXCEPT !.model = "spleeter:2stems", !.input = NoPath]

\* app.py:108,120,126/131,144,150,162  progress_bar.progress(...) after a stage
MilestoneTypo(stage) ==
    CASE stage = "upload" -> 10
      [] stage = "extract" -> 20
      [] stage = "separate" -> 5
      [] stage = "transcribe" -> 70
      [] stage = "subtitles" -> 80
      [] OTHER -> 100
Milestone(stage) ==
    CASE stage = "upload" -> 10
      [] stage = "extract" -> 20
      [] stage = "separate" -> 50
      [] stage = "transcribe" -> 70
      [] stage = "subtitles" -> 80
      [] OTHER -> 100

\* app.py:181-187  the fixed remediation hints
RemediationHints == {"shorter video", "2stems instead of 4stems",
                     "tiny transcription model", "reduce resolution"}

\* ------------------------------------------------------------------- state
VARIABLES
    entry,             \* "app": a pipeline run; "direct": a call of separate_vocals
    whisper_model,     \* app.py:38
    separation_model,  \* app.py:45
    keep_temp_files,   \* app.py:60
    videoDur,          \* duration of the uploaded media
    audioDur,          \* duration of the audio track extracted from it
    pc,                \* position of the run
    duration,          \* app.py:111
    instrumental_path, \* app.py:125/130
    actual_model,      \* app.py:138/140
    progress,          \* progress_bar
    status,            \* status_text
    notices,           \* st.warning / st.info / print messages issued
    error,             \* the failure reported by st.error (app.py:180)
    hints,             \* the remediation hints shown with it (app.py:181-187)
    files,             \* files that exist
    calls,             \* log of engine invocations
    sv,                \* the running call of separate_vocals
    sv_ret,            \* how the last call of separate_vocals ended
    tr,                \* the call of transcribe_audio
    segments,          \* create_subtitles: the segments argument
    subs,              \* create_subtitles: the SubRipFile being filled
    sub_pc,            \* create_subtitles: position ("idle" outside a call)
    sub_file,          \* create_subtitles: the entries saved to output_path
    runs,              \* concurrent runs: the state of each run
    disk               \* concurrent runs: the files of the shared filesystem

subVars == << segments, subs, sub_pc, sub_file >>
isoVars == << runs, disk >>
pipeVars == << pc, duration, instrumental_path, actual_model, progress, status, notices,
               error, hints, files, calls, sv, sv_ret, tr >>
\* What a step of the pipeline run never changes: the user's settings, the
\* media, and the state of the other specifications.
settings == << entry, whisper_model, separation_model, keep_temp_files, videoDur, audioDur,
               subVars, isoVars >>
vars == << entry, whisper_model, separation_model, keep_temp_files, videoDur, audioDur,
           pc, duration, instrumental_path, actual_model, progress, status, notices,
           error, hints, files, calls, sv, sv_ret, tr, subVars, isoVars >>

NoError == [eng |-> "", model |-> ""]
Call(eng, model, input, ok, site) ==
    [eng |-> eng, model |-> model, input |-> input, ok |-> ok, site |-> site]

\* Exit status an engine can give on these inputs: zero or non-zero when the
\* inputs exist, non-zero when one is missing.
Outcomes(inputs) == IF inputs \subseteq files THEN BOOLEAN ELSE {FALSE}

NoSv == [audio_path |-> NoPath, output_dir |-> NoPath, model |-> "",
         top_model |-> "", site |-> "", input |-> NoPath]
NoSvRet == [site |-> "", audio_path |-> NoPath, top_model |-> "", model |-> "",
            outcome |-> "none", path |-> NoPath, eng |-> ""]
NoTr == [audio_path |-> NoPath, model_name |-> "", temp_audio |-> NoPath,
         status |-> "none"]

SubIdle ==
    /\ segments = << >>
    /\ subs = << >>
    /\ sub_pc = "idle"
    /\ sub_file = << >>

IsoIdle ==
    /\ runs = << >>
    /\ disk = {}

Init ==
    /\ SubIdle
    /\ IsoIdle
    /\ entry \in {"app", "direct"}
    /\ whisper_model \in WhisperModels
    /\ separation_model \in SeparationModels
    /\ keep_temp_files \in BOOLEAN
    /\ videoDur \in Durations
    /\ audioDur \in {a \in Durations : a <= videoDur}
    /\ duration = None
    /\ instrumental_path = NoPath
    /\ actual_model = ""
    /\ progress = 0
    /\ status = ""
    /\ notices = {}
    /\ error = NoError
    /\ hints = {}
    /\ calls = << >>
    /\ sv_ret = NoSvRet
    /\ tr = NoTr
    /\ IF entry = "app"
       THEN /\ pc = "upload"
            /\ files = {}
            /\ sv = NoSv
       ELSE /\ pc = "sv_begin"
            /\ whisper_model = "tiny"
            /\ keep_temp_files = FALSE
            /\ videoDur = 60
            /\ \E a \in DirectAudio :
                  /\ files = {a}
                  /\ sv = [audio_path |-> a, output_dir |-> temp_dir,
                           model |-> separation_model, top_model |-> separation_model,
                           site |-> "direct", input |-> NoPath]

\* ------------------------------------------------------------ orchestrator
\* app.py:103-108
SaveUpload ==
    /\ pc = "upload"
    /\ status' = "Saving uploaded file..."
    /\ files' = files \cup {input_path}
    /\ progress' = Milestone("upload")
    /\ pc' = "probe"
    /\ UNCHANGED << settings, duration, instrumental_path, actual_model, notices,
                    error, hints, calls, sv, sv_ret, tr >>

\* The run ends in Failed: the outer handler reports the error (app.py:179-187).
FailThenDisplay(eng, model) ==
    /\ pc' = "display"
    /\ error' = [eng |-> eng, model |-> model]
    /\ hints' = RemediationHints
Fail(eng, model) ==
    /\ pc' = "Failed"
    /\ error' = [eng |-> eng, model |-> model]
    /\ hints' = RemediationHints

\* get_video_duration (app.py:68-74) and the check of app.py:111-114.
\* "ok" prints the duration, "garbled" prints text float() rejects, "fail"
\* is a non-zero exit; the last two give None.
ProbeVideo ==
    /\ pc = "probe"
    /\ Len(calls) < MaxCalls
    /\ \E out \in {"ok", "garbled", "fail"} :
          /\ calls' = Append(calls, Call("ffprobe", "", input_path, out = "ok", "app"))
          /\ duration' = IF out = "ok" THEN videoDur ELSE None
          /\ notices' = IF duration' # None /\ duration' # 0 /\ duration' > WarnDuration
                        THEN notices \cup {"long_video_warning"}
                        ELSE notices
    /\ pc' = "extract"
    /\ UNCHANGED << settings, instrumental_path, actual_model, progress, status,
                    error, hints, files, sv, sv_ret, tr >>

\* extract_audio (karaoke_engine.py:7-11) called at app.py:116-120
ExtractAudio ==
    /\ pc = "extract"
    /\ Len(calls) < MaxCalls
    /\ status' = "Extracting audio from video..."
    /\ \E ok \in Outcomes({input_path}) :
          /\ calls' = Append(calls, Call("ffmpeg_extract", "", input_path, ok, "app"))
          /\ IF ok
             THEN /\ files' = files \cup {audio_path}
                  /\ progress' = Milestone("extract")
                  /\ pc' = "separate"
                  /\ UNCHANGED << error, hints >>
             ELSE /\ Fail("ffmpeg_extract", "")
                  /\ UNCHANGED << files, progress >>
    /\ UNCHANGED << settings, duration, instrumental_path, actual_model, notices,
                    sv, sv_ret, tr >>

\* app.py:123-125  the first call of separate_vocals
CallSeparate ==
    /\ pc = "separate"
    /\ status' = "Separating vocals..."
    /\ sv' = [audio_path |-> audio_path, output_dir |-> temp_dir,
              model |-> separation_model, top_model |-> separation_model,
              site |-> "app125", input |-> NoPath]
    /\ pc' = "sv_begin"
    /\ UNCHANGED << settings, duration, instrumental_path, actual_model, progress,
                    notices, error, hints, files, calls, sv_ret, tr >>

\* ---------------------------------------------------------- separate_vocals
\* app.py:127-133  the orchestrator's except clause around the call of
\* app.py:125: retry with 2stems (app.py:130), or re-raise to the outer
\* handler
SepExcept(eng, model) ==
    IF OrchFallback(separation_model)
    THEN /\ notices' = notices \cup {"st_4stems_fallback"}
         /\ sv' = [audio_path |-> audio_path, output_dir |-> temp_dir,
                   model |-> "spleeter:2stems", top_model |-> "spleeter:2stems",
                   site |-> "app130", input |-> NoPath]
         /\ pc' = "sv_begin"
         /\ UNCHANGED << error, hints >>
    ELSE /\ Fail(eng, model)
         /\ UNCHANGED << notices, sv >>

\* separate_vocals raises CalledProcessError to the caller at sv.site: the
\* try block of app.py:124, the except clause of app.py:127 (whose raise goes
\* to the outer handler), or a direct caller.
SvRaise(eng) ==
    /\ sv_ret' = [site |-> sv.site, audio_path |-> sv.audio_path,
                  top_model |-> sv.top_model, model |-> sv.model,
                  outcome |-> "raise", path |-> NoPath, eng |-> eng]
    /\ CASE sv.site = "app125" -> SepExcept(eng, sv.model)
         [] sv.site = "app130" -> Fail(eng, sv.model) /\ UNCHANGED << notices, sv >>
         [] OTHER -> pc' = "raised" /\ UNCHANGED << error, hints, notices, sv >>
    /\ UNCHANGED << instrumental_path, progress >>

\* separate_vocals returns path to the caller at sv.site (app.py:125-126,
\* 130-131).
SvReturnSkipTranscribe(path) ==
    /\ sv_ret' = [site |-> sv.site, audio_path |-> sv.audio_path,
                  top_model |-> sv.top_model, model |-> sv.model,
                  outcome |-> "return", path |-> path, eng |-> ""]
    /\ IF sv.site = "direct"
       THEN /\ pc' = "returned"
            /\ UNCHANGED << instrumental_path, progress >>
       ELSE /\ pc' = "subtitles"
            /\ instrumental_path' = path
            /\ progress' = Milestone("separate")
    /\ UNCHANGED << error, hints >>
SvReturn(path) ==
    /\ sv_ret' = [site |-> sv.site, audio_path |-> sv.audio_path,
                  top_model |-> sv.top_model, model |-> sv.model,
                  outcome |-> "return", path |-> path, eng |-> ""]
    /\ IF sv.site = "direct"
       THEN /\ pc' = "returned"
            /\ UNCHANGED << instrumental_path, progress >>
       ELSE /\ pc' = "policy"
            /\ instrumental_path' = path
            /\ progress' = Milestone("separate")
    /\ UNCHANGED << error, hints >>

SvContinue(next) ==
    /\ pc' = next
    /\ UNCHANGED << sv_ret, error, hints, instrumental_path, progress >>

\* karaoke_engine.py:16-33  the 16 kHz downsample of the 4stems branch, and
\* the choice of the file the separation runs on
SvBegin ==
    /\ pc = "sv_begin"
    /\ IF Is4Stems(sv.model)
       THEN /\ Len(calls) < MaxCalls
            /\ \E ok \in Outcomes({sv.audio_path}) :
                  /\ calls' = Append(calls, Call("ffmpeg_downsample", sv.model,
                                                 sv.audio_path, ok, sv.site))
                  /\ IF ok
                     THEN /\ files' = files \cup {SvTempAudio(sv.output_dir)}
                          /\ sv' = [sv EXCEPT !.input = SvTempAudio(sv.output_dir)]
                          /\ SvContinue("sv_run")
                          /\ UNCHANGED notices
                     ELSE /\ SvRaise("ffmpeg_downsample")
                          /\ UNCHANGED files
       ELSE /\ sv' = [sv EXCEPT !.input = sv.audio_path]
            /\ SvContinue("sv_run")
            /\ UNCHANGED << files, calls, notices >>
    /\ UNCHANGED << settings, duration, actual_model, status, tr >>

\* karaoke_engine.py:35-43  the separation run and its except clause
SvRun ==
    /\ pc = "sv_run"
    /\ Len(calls) < MaxCalls
    /\ \E ok \in Outcomes({sv.input}) :
          /\ calls' = Append(calls, Call("spleeter", sv.model, sv.input, ok, sv.site))
          /\ IF ok
             THEN /\ files' = files \cup SpleeterFiles(sv.output_dir, sv.input, sv.model)
                  /\ SvContinue("sv_resolve")
                  /\ UNCHANGED << sv, notices >>
             ELSE IF SvFallback(sv.model)
                  THEN /\ notices' = notices \cup {"print_4stems_fallback"}
                       /\ sv' = SvRetry(sv)
                       /\ SvContinue("sv_begin")
                       /\ UNCHANGED files
                  ELSE /\ SvRaise("spleeter")
                       /\ UNCHANGED files
    /\ UNCHANGED << settings, duration, actual_model, status, tr >>

\* karaoke_engine.py:45-62  the instrumental path, with the mix of the
\* drums, bass and other stems for 4stems
SvResolve ==
    /\ pc = "sv_resolve"
    /\ IF Is4Stems(sv.model) /\ SvStem(sv.output_dir, sv.audio_path, "other") \in files
       THEN /\ Len(calls) < MaxCalls
            /\ \E ok \in Outcomes({SvStem(sv.output_dir, sv.audio_path, s) :
                                     s \in {"drums", "bass", "other"}}) :
                  /\ calls' = Append(calls, Call("ffmpeg_mix", sv.model,
                                 SvBaseDir(sv.output_dir, sv.audio_path), ok, sv.site))
                  /\ IF ok
                     THEN /\ files' = files \cup
                                {SvStem(sv.output_dir, sv.audio_path, "accompaniment")}
                          /\ SvReturn(SvStem(sv.output_dir, sv.audio_path, "accompaniment"))
                          /\ UNCHANGED << notices, sv >>
                     ELSE /\ SvRaise("ffmpeg_mix")
                          /\ UNCHANGED files
       ELSE /\ SvReturn(SvStem(sv.output_dir, sv.audio_path, "accompaniment"))
            /\ UNCHANGED << files, calls, notices, sv >>
    /\ UNCHANGED << settings, duration, actual_model, status, tr >>

\* app.py:135-143  the model policy and the call of transcribe_audio
TranscribePolicy ==
    /\ pc = "policy"
    /\ actual_model' = ActualModel(duration, whisper_model)
    /\ notices' = IF UseTiny(duration, whisper_model)
                  THEN notices \cup {"tiny_info"} ELSE notices
    /\ status' = "Transcribing vocals..."
    /\ tr' = [audio_path |-> audio_path, model_name |-> actual_model',
              temp_audio |-> NoPath, status |-> "running"]
    /\ pc' = "tr_probe"
    /\ UNCHANGED << settings, duration, instrumental_path, progress, error, hints, files,
                    calls, sv, sv_ret >>

\* --------------------------------------------------------- transcribe_audio
\* karaoke_engine.py:73-80  the duration query (outside the try block) and
\* the parse of its output (inside it)
TrProbe ==
    /\ pc = "tr_probe"
    /\ Len(calls) < MaxCalls
    /\ \E out \in {"ok", "garbled", "fail"} :
          /\ calls' = Append(calls, Call("ffprobe", "", tr.audio_path, out = "ok",
                                         "transcribe"))
          /\ CASE out = "fail" ->
                    /\ Fail("ffprobe", "")
                    /\ tr' = [tr EXCEPT !.status = "raised"]
               [] out = "garbled" ->
                    /\ pc' = "tr_load"
                    /\ UNCHANGED << error, hints, tr >>
               [] OTHER ->
                    /\ pc' = IF NeedsDownsample(audioDur) THEN "tr_downsample"
                                                         ELSE "tr_load"
                    /\ UNCHANGED << error, hints, tr >>
    /\ UNCHANGED << settings, duration, instrumental_path, actual_model, progress,
                    status, notices, files, sv, sv_ret >>

\* karaoke_engine.py:81-87  the downsample; the bare except swallows its
\* failure, after temp_audio was assigned and before audio_path is
TrDownsample ==
    /\ pc = "tr_downsample"
    /\ Len(calls) < MaxCalls
    /\ \E ok \in Outcomes({tr.audio_path}) :
          /\ calls' = Append(calls, Call("ffmpeg_downsample", "", tr.audio_path, ok,
                                         "transcribe"))
          /\ IF ok
             THEN /\ files' = files \cup {TrTempAudio(tr.audio_path)}
                  /\ tr' = [tr EXCEPT !.temp_audio = TrTempAudio(tr.audio_path),
                                      !.audio_path = TrTempAudio(tr.audio_path)]
             ELSE /\ tr' = [tr EXCEPT !.temp_audio = TrTempAudio(tr.audio_path)]
                  /\ UNCHANGED files
    /\ pc' = "tr_load"
    /\ UNCHANGED << settings, duration, instrumental_path, actual_model, progress,
                    status, notices, error, hints, sv, sv_ret >>

\* karaoke_engine.py:90  whisper.load_model(model_name)
TrLoadModel ==
    /\ pc = "tr_load"
    /\ Len(calls) < MaxCalls
    /\ \E ok \in BOOLEAN :
          /\ calls' = Append(calls, Call("whisper_load", tr.model_name, NoPath, ok,
                                         "transcribe"))
          /\ IF ok
             THEN /\ pc' = "tr_transcribe"
                  /\ UNCHANGED << error, hints, tr >>
             ELSE /\ Fail("whisper_load", tr.model_name)
                  /\ tr' = [tr EXCEPT !.status = "raised"]
    /\ UNCHANGED << settings, duration, instrumental_path, actual_model, progress,
                    status, notices, files, sv, sv_ret >>

\* karaoke_engine.py:91  model.transcribe(audio_path)
TrTranscribe ==
    /\ pc = "tr_transcribe"
    /\ Len(calls) < MaxCalls
    /\ \E ok \in Outcomes({tr.audio_path}) :
          /\ calls' = Append(calls, Call("whisper_transcribe", tr.model_name,
                                         tr.audio_path, ok, "transcribe"))
          /\ IF ok
             THEN /\ pc' = "tr_cleanup"
                  /\ UNCHANGED << error, hints, tr >>
             ELSE /\ Fail("whisper_transcribe", tr.model_name)
                  /\ tr' = [tr EXCEPT !.status = "raised"]
    /\ UNCHANGED << settings, duration, instrumental_path, actual_model, progress,
                    status, notices, files, sv, sv_ret >>

\* karaoke_engine.py:93-100  the removal of the scratch file (a failing
\* os.remove is swallowed) and the return; app.py:144
TrCleanup ==
    /\ pc = "tr_cleanup"
    /\ IF tr.temp_audio # NoPath /\ tr.temp_audio \in files
       THEN \E removed \in BOOLEAN :
               files' = IF removed THEN files \ {tr.temp_audio} ELSE files
       ELSE UNCHANGED files
    /\ tr' = [tr EXCEPT !.status = "returned"]
    /\ progress' = Milestone("transcribe")
    /\ pc' = "subtitles"
    /\ UNCHANGED << settings, duration, instrumental_path, actual_model, status,
                    notices, error, hints, calls, sv, sv_ret >>

\* app.py:146-150  create_subtitles (karaoke_engine.py:103-129)
CreateSubtitles ==
    /\ pc = "subtitles"
    /\ status' = "Creating subtitle file..."
    /\ \E ok \in BOOLEAN :
          IF ok
          THEN /\ files' = files \cup {subtitle_path}
               /\ progress' = Milestone("subtitles")
               /\ pc' = "compose"
               /\ UNCHANGED << error, hints >>
          ELSE /\ Fail("pysrt_save", "")
               /\ UNCHANGED << files, progress >>
    /\ UNCHANGED << settings, duration, instrumental_path, actual_model, notices,
                    calls, sv, sv_ret, tr >>

\* app.py:152-162  create_final_video (karaoke_engine.py:132-143)
ComposeVideo ==
    /\ pc = "compose"
    /\ Len(calls) < MaxCalls
    /\ status' = "Creating final karaoke video..."
    /\ \E ok \in Outcomes({input_path, instrumental_path, subtitle_path}) :
          /\ calls' = Append(calls, Call("ffmpeg_compose", "", instrumental_path, ok,
                                         "app"))
          /\ IF ok
             THEN /\ files' = files \cup {output_path}
                  /\ progress' = Milestone("compose")
                  /\ pc' = "display"
                  /\ UNCHANGED << error, hints >>
             ELSE /\ Fail("ffmpeg_compose", "")
                  /\ UNCHANGED << files, progress >>
    /\ UNCHANGED << settings, duration, instrumental_path, actual_model, notices,
                    sv, sv_ret, tr >>

\* app.py:164-177  the success status, the download button and the preview
DisplayAfterFailure ==
    /\ pc \in {"display", "Failed"}
    /\ status' = "Karaoke video generated successfully!"
    /\ notices' = notices \cup {"download_button", "preview"}
    /\ pc' = "Done"
    /\ UNCHANGED << settings, duration, instrumental_path, actual_model, progress,
                    error, hints, files, calls, sv, sv_ret, tr >>
Display ==
    /\ pc = "display"
    /\ status' = "Karaoke video generated successfully!"
    /\ notices' = notices \cup {"download_button", "preview"}
    /\ pc' = "Done"
    /\ UNCHANGED << settings, duration, instrumental_path, actual_model, progress,
                    error, hints, files, calls, sv, sv_ret, tr >>

Next ==
    \/ SaveUpload
    \/ ProbeVideo
    \/ ExtractAudio
    \/ CallSeparate
    \/ SvBegin
    \/ SvRun
    \/ SvResolve
    \/ TranscribePolicy
    \/ TrProbe
    \/ TrDownsample
    \/ TrLoadModel
    \/ TrTranscribe
    \/ TrCleanup
    \/ CreateSubtitles
    \/ ComposeVideo
    \/ Display

Spec == Init /\ [][Next]_vars

\* The script runs top to bottom and every engine call is a blocking call
\* that returns: a step that can be taken is taken.
LiveSpec == Init /\ [][Next]_vars /\ WF_vars(Next)

\* --------------------------------------------------------- create_subtitles
\* create_subtitles (karaoke_engine.py:103-129) on its own: the segments are
\* drawn from a bounded set, a time is a number of milliseconds and a text a
\* sequence of characters.
MaxSegments == 2

Whitespace == {" ", "\n"}
SegmentTimes == {0, 1500, 90061001}
SegmentTexts == { << >>, << "a" >>, << " ", "a", "\n" >>, << "a", " ", "b", " " >>,
                  << " ", " " >> }
Segment == { [start |-> a, end |-> b, text |-> t] :
                a \in SegmentTimes, b \in SegmentTimes, t \in SegmentTexts }
TimedSegments == { g \in Segment : g.start < g.end }
SegmentLists == UNION { [1..n -> TimedSegments] : n \in 0..MaxSegments }

\* str.strip() (karaoke_engine.py:112)
RECURSIVE LStrip(_)
LStrip(t) == IF t # << >> /\ Head(t) \in Whitespace THEN LStrip(Tail(t)) ELSE t
RECURSIVE RStrip(_)
RStrip(t) == IF t # << >> /\ t[Len(t)] \in Whitespace
             THEN RStrip(SubSeq(t, 1, Len(t) - 1)) ELSE t
Strip(t) == RStrip(LStrip(t))

\* timedelta(seconds=...) (karaoke_engine.py:115-116): normalised days,
\* seconds and microseconds
TimeDelta(ms) == [days |-> ms \div 86400000,
                  seconds |-> (ms \div 1000) % 86400,
                  microseconds |-> (ms % 1000) * 1000]

\* index=i + 1 for the i of enumerate (karaoke_engine.py:109,120)
SubIndexFromZero(i) == i
SubIndex(i) == i + 1

\* pysrt.SubRipItem(index, start, end, text) (karaoke_engine.py:110-124) for
\* segment number i (from 0) of the list
SubRipItem(i, segment) ==
    [index |-> SubIndex(i),
     start |-> TimeDelta(segment.start),
     end |-> TimeDelta(segment.end),
     text |-> Strip(segment.text)]

SubInit ==
    /\ entry = "create_subtitles"
    /\ whisper_model = "tiny"
    /\ separation_model = "spleeter:2stems"
    /\ keep_temp_files = FALSE
    /\ videoDur = 60
    /\ audioDur = 60
    /\ pc = "idle"
    /\ duration = None
    /\ instrumental_path = NoPath
    /\ actual_model = ""
    /\ progress = 0
    /\ status = ""
    /\ notices = {}
    /\ error = NoError
    /\ hints = {}
    /\ files = {}
    /\ calls = << >>
    /\ sv = NoSv
    /\ sv_ret = NoSvRet
    /\ tr = NoTr
    /\ segments \in SegmentLists
    /\ subs = << >>
    /\ sub_pc = "loop"
    /\ sub_file = << >>
    /\ IsoIdle

\* karaoke_engine.py:109-125  one iteration of the loop: subs.append(item)
SubAppend ==
    /\ sub_pc = "loop"
    /\ Len(subs) < Len(segments)
    /\ subs' = Append(subs, SubRipItem(Len(subs), segments[Len(subs) + 1]))
    /\ UNCHANGED << segments, sub_pc, sub_file >>
    /\ UNCHANGED << entry, whisper_model, separation_model, keep_temp_files,
                    videoDur, audioDur, pipeVars, isoVars >>

\* karaoke_engine.py:127-129  subs.save(output_path) after the loop
SubSave ==
    /\ sub_pc = "loop"
    /\ Len(subs) = Len(segments)
    /\ sub_file' = subs
    /\ sub_pc' = "saved"
    /\ UNCHANGED << segments, subs >>
    /\ UNCHANGED << entry, whisper_model, separation_model, keep_temp_files,
                    videoDur, audioDur, pipeVars, isoVars >>

SubNext ==
    \/ SubAppend
    \/ SubSave

SubSpec == SubInit /\ [][SubNext]_vars

\* ---------------------------------------------------------- concurrent runs
\* Two requests run the pipeline at the same time on one filesystem.  Each
\* run is followed through the files it reads, writes and deletes; its paths
\* are the paths of the single run above with temp_dir replaced by the
\* directory its own mkdtemp call returned.
Runs == {1, 2}
DirPool == {"tmp_a", "tmp_b", "tmp_c"}

\* tempfile.mkdtemp() (app.py:94): a directory that did not exist before
MkDtempFixed(existing) == {"tmp_a"}
MkDtemp(existing) == DirPool \ existing

\* A path of the run whose temp_dir is dir: paths built from temp_dir move
\* with it, any other path stays where it is.
InRun(dir, path) ==
    IF path # << >> /\ path[1] = D("tmp") THEN << D(dir) >> \o Tail(path) ELSE path
InRunAll(dir, paths) == { InRun(dir, q) : q \in paths }

NewRun(model, long) ==
    [dir |-> "", pc |-> "start", model |-> model, cur |-> model, site |-> "app125",
     long |-> long, view |-> {}, touched |-> {}]

IsoInit ==
    /\ entry = "concurrent"
    /\ whisper_model = "tiny"
    /\ separation_model = "spleeter:2stems"
    /\ keep_temp_files = FALSE
    /\ videoDur = 60
    /\ audioDur = 60
    /\ pc = "idle"
    /\ duration = None
    /\ instrumental_path = NoPath
    /\ actual_model = ""
    /\ progress = 0
    /\ status = ""
    /\ notices = {}
    /\ error = NoError
    /\ hints = {}
    /\ files = {}
    /\ calls = << >>
    /\ sv = NoSv
    /\ sv_ret = NoSvRet
    /\ tr = NoTr
    /\ SubIdle
    /\ \E m1 \in SeparationModels, m2 \in SeparationModels, l1 \in BOOLEAN, l2 \in BOOLEAN :
          runs = << NewRun(m1, l1), NewRun(m2, l2) >>
    /\ disk = {}

\* Run r reads R, writes W and deletes X, and goes on at position next with
\* separation model cur at call site site.
IsoDo(r, R, W, X, next, cur, site) ==
    /\ disk' = (disk \ X) \cup W
    /\ runs' = [runs EXCEPT ![r] = [@ EXCEPT !.pc = next, !.cur = cur, !.site = site,
                                             !.view = (@ \ X) \cup W,
                                             !.touched = @ \cup R \cup W \cup X]]
    /\ UNCHANGED << entry, whisper_model, separation_model, keep_temp_files,
                    videoDur, audioDur, pipeVars, subVars >>

IsoGo(r, R, W, X, next) == IsoDo(r, R, W, X, next, runs[r].cur, runs[r].site)

\* separate_vocals of run r raises after having read R (app.py:127-133)
IsoSepRaise(r, R) ==
    IF runs[r].site = "app125" /\ OrchFallback(runs[r].model)
    THEN IsoDo(r, R, {}, {}, "sep_begin", "spleeter:2stems", "app130")
    ELSE IsoGo(r, R, {}, {}, "Failed")

\* app.py:94-96
IsoMkdtemp(r) ==
    /\ runs[r].pc = "start"
    /\ \E dir \in MkDtemp({runs[q].dir : q \in Runs} \ {""}) :
          /\ runs' = [runs EXCEPT ![r] = [@ EXCEPT !.dir = dir, !.pc = "upload"]]
          /\ UNCHANGED disk
    /\ UNCHANGED << entry, whisper_model, separation_model, keep_temp_files,
                    videoDur, audioDur, pipeVars, subVars >>

\* app.py:103-108
IsoUpload(r) ==
    /\ runs[r].pc = "upload"
    /\ IsoGo(r, {}, {InRun(runs[r].dir, input_path)}, {}, "probe")

\* app.py:111  get_video_duration(input_path)
IsoProbe(r) ==
    /\ runs[r].pc = "probe"
    /\ IsoGo(r, {InRun(runs[r].dir, input_path)}, {}, {}, "extract")

\* app.py:116-120  extract_audio(input_path, audio_path)
IsoExtract(r) ==
    /\ runs[r].pc = "extract"
    /\ LET in == InRun(runs[r].dir, input_path)
           out == InRun(runs[r].dir, audio_path)
       IN \E ok \in IF in \in disk THEN BOOLEAN ELSE {FALSE} :
             IF ok THEN IsoGo(r, {in}, {out}, {}, "sep_begin")
                   ELSE IsoGo(r, {in}, {}, {}, "Failed")

\* karaoke_engine.py:16-33
IsoSepBegin(r) ==
    /\ runs[r].pc = "sep_begin"
    /\ LET audio == InRun(runs[r].dir, audio_path)
           temp == InRun(runs[r].dir, SvTempAudio(temp_dir))
       IN IF Is4Stems(runs[r].cur)
          THEN \E ok \in IF audio \in disk THEN BOOLEAN ELSE {FALSE} :
                  IF ok THEN IsoGo(r, {audio}, {temp}, {}, "sep_run")
                        ELSE IsoSepRaise(r, {audio})
          ELSE IsoGo(r, {}, {}, {}, "sep_run")

\* karaoke_engine.py:35-43
IsoSepRun(r) ==
    /\ runs[r].pc = "sep_run"
    /\ LET given == IF Is4Stems(runs[r].cur) THEN SvTempAudio(temp_dir) ELSE audio_path
           in == InRun(runs[r].dir, given)
           out == InRunAll(runs[r].dir, SpleeterFiles(temp_dir, given, runs[r].cur))
       IN \E ok \in IF in \in disk THEN BOOLEAN ELSE {FALSE} :
             IF ok THEN IsoGo(r, {in}, out, {}, "sep_resolve")
             ELSE IF SvFallback(runs[r].cur)
                  THEN IsoDo(r, {in}, {}, {}, "sep_begin", "spleeter:2stems", runs[r].site)
                  ELSE IsoSepRaise(r, {in})

\* karaoke_engine.py:45-62
IsoSepResolve(r) ==
    /\ runs[r].pc = "sep_resolve"
    /\ LET stem(n) == InRun(runs[r].dir, SvStem(temp_dir, audio_path, n))
           stems == {stem("drums"), stem("bass"), stem("other")}
       IN IF Is4Stems(runs[r].cur) /\ stem("other") \in disk
          THEN \E ok \in IF stems \subseteq disk THEN BOOLEAN ELSE {FALSE} :
                  IF ok THEN IsoGo(r, stems, {stem("accompaniment")}, {}, "tr_probe")
                        ELSE IsoSepRaise(r, stems)
          ELSE IsoGo(r, {stem("other")}, {}, {}, "tr_probe")

\* karaoke_engine.py:73-80
IsoTrProbe(r) ==
    /\ runs[r].pc = "tr_probe"
    /\ LET audio == InRun(runs[r].dir, audio_path)
       IN \E ok \in BOOLEAN :
             IF ok THEN IsoGo(r, {audio}, {}, {},
                              IF runs[r].long THEN "tr_downsample" ELSE "whisper")
                   ELSE IsoGo(r, {audio}, {}, {}, "Failed")

\* karaoke_engine.py:81-87
IsoTrDownsample(r) ==
    /\ runs[r].pc = "tr_downsample"
    /\ LET audio == InRun(runs[r].dir, audio_path)
           temp == InRun(runs[r].dir, TrTempAudio(audio_path))
       IN \E ok \in IF audio \in disk THEN BOOLEAN ELSE {FALSE} :
             IF ok THEN IsoGo(r, {audio}, {temp}, {}, "whisper")
                   ELSE IsoGo(r, {audio}, {}, {}, "whisper")

\* karaoke_engine.py:90-91
IsoWhisper(r) ==
    /\ runs[r].pc = "whisper"
    /\ LET audio == InRun(runs[r].dir, audio_path)
           temp == InRun(runs[r].dir, TrTempAudio(audio_path))
           in == IF temp \in runs[r].view THEN temp ELSE audio
       IN \E ok \in IF in \in disk THEN BOOLEAN ELSE {FALSE} :
             IF ok THEN IsoGo(r, {in}, {}, {}, "tr_cleanup")
                   ELSE IsoGo(r, {in}, {}, {}, "Failed")

\* karaoke_engine.py:93-100
IsoTrCleanup(r) ==
    /\ runs[r].pc = "tr_cleanup"
    /\ LET temp == InRun(runs[r].dir, TrTempAudio(audio_path))
       IN IF runs[r].long /\ temp \in disk
          THEN \E removed \in BOOLEAN :
                  IsoGo(r, {temp}, {}, IF removed THEN {temp} ELSE {}, "subtitles")
          ELSE IsoGo(r, {}, {}, {}, "subtitles")

\* app.py:146-150
IsoSubtitles(r) ==
    /\ runs[r].pc = "subtitles"
    /\ \E ok \in BOOLEAN :
          IF ok THEN IsoGo(r, {}, {InRun(runs[r].dir, subtitle_path)}, {}, "compose")
                ELSE IsoGo(r, {}, {}, {}, "Failed")

\* app.py:152-162
IsoCompose(r) ==
    /\ runs[r].pc = "compose"
    /\ LET in == InRunAll(runs[r].dir,
                          {input_path, subtitle_path,
                           SvStem(temp_dir, audio_path, "accompaniment")})
       IN \E ok \in IF in \subseteq disk THEN BOOLEAN ELSE {FALSE} :
             IF ok THEN IsoGo(r, in, {InRun(runs[r].dir, output_path)}, {}, "display")
                   ELSE IsoGo(r, in, {}, {}, "Failed")

\* app.py:164-177
IsoDisplay(r) ==
    /\ runs[r].pc = "display"
    /\ IsoGo(r, {InRun(runs[r].dir, output_path)}, {}, {}, "Done")

IsoNext ==
    \E r \in Runs :
        \/ IsoMkdtemp(r)
        \/ IsoUpload(r)
        \/ IsoProbe(r)
        \/ IsoExtract(r)
        \/ IsoSepBegin(r)
        \/ IsoSepRun(r)
        \/ IsoSepResolve(r)
        \/ IsoTrProbe(r)
        \/ IsoTrDownsample(r)
        \/ IsoWhisper(r)
        \/ IsoTrCleanup(r)
        \/ IsoSubtitles(r)
        \/ IsoCompose(r)
        \/ IsoDisplay(r)

IsoSpec == IsoInit /\ [][IsoNext]_vars

\* ------------------------------------------------------------------ claims
Idx == 1..Len(calls)
SvEngines == {"ffmpeg_downsample", "spleeter", "ffmpeg_mix"}
SvSites == {"app125", "app130", "direct"}
WhisperEngines == {"whisper_load", "whisper_transcribe"}
Known(d) == d # None

\* The last call of separate_vocals was made with 4stems and one of the
\* engine invocations of its 4stems attempt exited non-zero.
FourStemAttemptFailed ==
    /\ sv_ret.outcome # "none"
    /\ sv_ret.top_model = "spleeter:4stems"
    /\ \E i \in Idx : /\ calls[i].site = sv_ret.site
                      /\ calls[i].eng \in SvEngines
                      /\ calls[i].model = "spleeter:4stems"
                      /\ ~calls[i].ok

\* C1: a call of separate with FourStem in which the downsample, the
\* separation run or the mix exits non-zero does not raise that failure: a
\* degradation event is recorded, TwoStem separation is attempted on the same
\* audio, and what the call gives back is the TwoStem attempt's result.
C1_FourStemFailureDegrades ==
    FourStemAttemptFailed =>
        /\ sv_ret.outcome = "raise" => sv_ret.model = "spleeter:2stems"
        /\ "print_4stems_fallback" \in notices
        /\ \E j \in Idx : /\ calls[j].site = sv_ret.site
                          /\ calls[j].eng = "spleeter"
                          /\ calls[j].model = "spleeter:2stems"
                          /\ calls[j].input = sv_ret.audio_path

\* C2: when the FourStem separation run exits zero and separate returns a
\* path without having mixed the stems (they are absent where it looks), a
\* TwoStem separation run has been made by that call.
C2_MissingStemsFallBack ==
    ( /\ sv_ret.outcome = "return"
      /\ sv_ret.top_model = "spleeter:4stems"
      /\ \E i \in Idx : /\ calls[i].site = sv_ret.site
                        /\ calls[i].eng = "spleeter"
                        /\ calls[i].model = "spleeter:4stems"
                        /\ calls[i].ok
      /\ ~\E i \in Idx : /\ calls[i].site = sv_ret.site
                         /\ calls[i].eng = "ffmpeg_mix"
                         /\ calls[i].ok )
    => \E j \in Idx : /\ calls[j].site = sv_ret.site
                      /\ calls[j].eng = "spleeter"
                      /\ calls[j].model = "spleeter:2stems"

\* C3: when FourStem is selected and the separation run succeeds, writing its
\* stems into the subdirectory named after the file it was given, separate
\* mixes the stems of that subdirectory and the path it returns is the mixed
\* file, which exists.
C3_FourStemMixesStems ==
    \A i \in Idx :
        ( /\ sv_ret.outcome = "return"
          /\ sv_ret.top_model = "spleeter:4stems"
          /\ calls[i].site = sv_ret.site
          /\ calls[i].eng = "spleeter"
          /\ calls[i].model = "spleeter:4stems"
          /\ calls[i].ok )
        => /\ \E j \in Idx : /\ calls[j].site = sv_ret.site
                             /\ calls[j].eng = "ffmpeg_mix"
                             /\ calls[j].ok
                             /\ calls[j].input = SpleeterDir(temp_dir, calls[i].input)
           /\ sv_ret.path = Join(SpleeterDir(temp_dir, calls[i].input),
                                 F("accompaniment", "wav"))
           /\ sv_ret.path \in files

\* C4: a duration query that fails or prints unparseable text never puts the
\* run in Failed.
C4_ProbeFailureNeverFails ==
    pc = "Failed" => error.eng # "ffprobe"

\* C5: in a run whose duration is known and above 180 s and whose requested
\* transcription model is not tiny, every invocation of the recognition
\* engine uses tiny and the transcription runs on the downsampled copy.
C5_LongAudioTinyAndDownsampled ==
    ( entry = "app" /\ Known(duration) /\ duration > 180 /\ whisper_model # "tiny" )
    => \A i \in Idx :
          /\ calls[i].eng \in WhisperEngines => calls[i].model = "tiny"
          /\ calls[i].eng = "whisper_transcribe"
                => calls[i].input = TrTempAudio(audio_path)

C7_ScratchFileRemoved ==
    ( /\ tr.status \in {"returned", "raised"}
      /\ \E i \in Idx : /\ calls[i].eng = "ffmpeg_downsample"
                        /\ calls[i].site = "transcribe"
                        /\ calls[i].ok )
    => /\ TrTempAudio(audio_path) \notin files
       /\ error.eng # "os_remove"

\* C8: at the end of a run, with keep-temp-files off no intermediate artifact
\* of the working directory is left; with it on the original audio and the
\* subtitle file that were written are still there.
Intermediate(f) == f \notin {input_path, output_path}
C8_TempFilesCleaned ==
    ( entry = "app" /\ pc \in {"Done", "Failed"} )
    => IF keep_temp_files
       THEN /\ progress >= 20 => audio_path \in files
            /\ progress >= 80 => subtitle_path \in files
       ELSE \A f \in files : ~Intermediate(f)

\* C9: a TwoStem separation run that exits non-zero ends its call of separate
\* by raising: the call makes no further engine invocation, and a run that
\* selected TwoStem is in Failed with that failure.
C9_TwoStemFailurePropagates ==
    \A i \in Idx :
        ( /\ calls[i].eng = "spleeter"
          /\ calls[i].model = "spleeter:2stems"
          /\ ~calls[i].ok )
        => /\ \A j \in Idx : j > i => calls[j].site # calls[i].site
           /\ pc \in {"sv_begin", "sv_run", "sv_resolve"} => sv.site # calls[i].site
           /\ entry = "direct" => pc = "raised" /\ sv_ret.outcome = "raise"
           /\ ( entry = "app" /\ separation_model = "spleeter:2stems" )
                 => /\ pc = "Failed"
                    /\ error = [eng |-> "spleeter", model |-> "spleeter:2stems"]
                    /\ i = Len(calls)

C9_Witness ==
    /\ entry = "app"
    /\ separation_model = "spleeter:2stems"
    /\ pc = "Failed"
    /\ Len(calls) > 0
    /\ calls[Len(calls)].eng = "spleeter"
    /\ ~calls[Len(calls)].ok

\* C10: in one run the TwoStem separation engine is invoked at most once, and
\* after a failed TwoStem attempt no further separation engine invocation is
\* made.
C10_FallbackDepthOne ==
    entry = "app" =>
        /\ Cardinality({i \in Idx : /\ calls[i].eng = "spleeter"
                                    /\ calls[i].model = "spleeter:2stems"}) <= 1
        /\ \A i \in Idx :
              ( calls[i].eng = "spleeter" /\ calls[i].model = "spleeter:2stems"
                /\ ~calls[i].ok )
              => \A j \in Idx : j > i => calls[j].eng \notin SvEngines

\* The run presents its output as a success: the success status, the
\* download button or the preview.
Presented ==
    \/ status = "Karaoke video generated successfully!"
    \/ "download_button" \in notices
    \/ "preview" \in notices

OkCall(eng) == \E i \in Idx : calls[i].eng = eng /\ calls[i].ok

\* Every stage of the run completed without error and left its output.
AllStagesCompleted ==
    /\ error = NoError
    /\ OkCall("ffmpeg_extract") /\ audio_path \in files
    /\ sv_ret.outcome = "return" /\ instrumental_path = sv_ret.path
    /\ instrumental_path \in files
    /\ tr.status = "returned" /\ OkCall("whisper_transcribe")
    /\ subtitle_path \in files
    /\ OkCall("ffmpeg_compose") /\ output_path \in files

\* C11: the success status, the download and the preview appear only in a
\* run in which extraction, separation, transcription, subtitle writing and
\* composition all completed without error, and never in a run that is
\* Failed.
C11_NoPartialSuccess ==
    /\ Presented => AllStagesCompleted /\ pc = "Done"
    /\ pc = "Failed" => ~Presented

C11_Witness ==
    /\ pc = "Done"
    /\ Presented
    /\ output_path \in files

Milestones == {0, 10, 20, 50, 70, 80, 100}

\* What a progress value says has been completed.
ProgressJustified ==
    /\ progress \in Milestones
    /\ progress >= 10 => input_path \in files
    /\ progress >= 20 => OkCall("ffmpeg_extract")
    /\ progress >= 50 => sv_ret.outcome = "return" /\ instrumental_path = sv_ret.path
    /\ progress >= 70 => tr.status = "returned"
    /\ progress >= 80 => subtitle_path \in files
    /\ progress = 100 <=> OkCall("ffmpeg_compose")
    /\ progress = 100 <=> pc \in {"display", "Done"}

\* C12: progress never decreases, takes only the values 0, 10, 20, 50, 70, 80
\* and 100, reaches a milestone only after the stage of that milestone
\* completed, and is 100 exactly when the composition has succeeded.
C12_ProgressMilestones ==
    /\ []ProgressJustified
    /\ [][progress' >= progress]_vars

C12_Witness ==
    /\ pc = "Done"
    /\ progress = 100

\* C13: a run in Failed shows the error and the fixed remediation hints, and
\* from then on stays in Failed: no engine invocation, no stage, no change of
\* progress or status.
C13_FailedIsTerminal ==
    /\ [](pc = "Failed" => error # NoError /\ hints = RemediationHints)
    /\ [][pc = "Failed" => /\ pc' = "Failed"
                           /\ calls' = calls
                           /\ progress' = progress
                           /\ status' = status
                           /\ error' = error]_vars

C13_Witness ==
    /\ pc = "Failed"
    /\ error.eng = "whisper_transcribe"
    /\ hints = RemediationHints

\* The stage of the orchestrator's state machine a position belongs to.
StageOf(p) ==
    CASE p = "upload" -> "Uploading"
      [] p = "probe" -> "Probing"
      [] p = "extract" -> "ExtractingAudio"
      [] p \in {"separate", "sv_begin", "sv_run", "sv_resolve"} -> "SeparatingVocals"
      [] p \in {"policy", "tr_probe", "tr_downsample", "tr_load", "tr_transcribe",
                "tr_cleanup"} -> "Transcribing"
      [] p = "subtitles" -> "WritingSubtitles"
      [] p = "compose" -> "ComposingVideo"
      [] p \in {"display", "Done"} -> "Done"
      [] OTHER -> "Failed"
NextStage(st) ==
    CASE st = "Uploading" -> "Probing"
      [] st = "Probing" -> "ExtractingAudio"
      [] st = "ExtractingAudio" -> "SeparatingVocals"
      [] st = "SeparatingVocals" -> "Transcribing"
      [] st = "Transcribing" -> "WritingSubtitles"
      [] st = "WritingSubtitles" -> "ComposingVideo"
      [] st = "ComposingVideo" -> "Done"
      [] OTHER -> "none"

\* The step leaves stage st with the stage completed.
LeavesCompleted(st) ==
    CASE st = "Uploading" -> input_path \in files'
      [] st = "Probing" -> calls'[Len(calls')].eng = "ffprobe"
      [] st = "ExtractingAudio" -> audio_path \in files' /\ calls'[Len(calls')].ok
      [] st = "SeparatingVocals" -> /\ sv_ret'.outcome = "return"
                                    /\ instrumental_path' = sv_ret'.path
      [] st = "Transcribing" -> tr'.status = "returned"
      [] st = "WritingSubtitles" -> subtitle_path \in files'
      [] st = "ComposingVideo" -> output_path \in files' /\ calls'[Len(calls')].ok
      [] OTHER -> FALSE

\* C14: every step of a run stays in its stage, goes to the next stage of
\* Uploading, Probing, ExtractingAudio, SeparatingVocals, Transcribing,
\* WritingSubtitles, ComposingVideo, Done after the current stage completed,
\* or goes to Failed; a run starts in Uploading.
C14_StageOrder ==
    /\ [](entry = "app" /\ calls = << >> /\ files = {} => StageOf(pc) = "Uploading")
    /\ [][entry = "app" =>
            \/ StageOf(pc') = StageOf(pc)
            \/ StageOf(pc') = "Failed"
            \/ /\ StageOf(pc') = NextStage(StageOf(pc))
               /\ LeavesCompleted(StageOf(pc))]_vars

C14_Witness ==
    /\ entry = "app"
    /\ pc = "Done"
    /\ tr.status = "returned"

\* An engine invocation exited non-zero although the file it was given
\* exists, or the subtitle writer failed.
SomeEngineFailed ==
    \/ \E i \in Idx : /\ ~calls[i].ok
                      /\ calls[i].input = NoPath \/ calls[i].input \in files
    \/ error.eng = "pysrt_save"

DoneWithOutput ==
    /\ pc = "Done"
    /\ progress = 100
    /\ output_path \in files

\* C15: a run with TwoStem selected, whatever the transcription model and the
\* duration, in which no engine invocation fails eventually is Done with
\* progress 100 and the output video written.
C15_TwoStemRunCompletes ==
    (entry = "app" /\ separation_model = "spleeter:2stems")
        ~> (DoneWithOutput \/ SomeEngineFailed)

C15_Witness ==
    /\ entry = "app"
    /\ separation_model = "spleeter:2stems"
    /\ whisper_model = "base"
    /\ duration = 301
    /\ DoneWithOutput
    /\ ~SomeEngineFailed

DegradationNotices == {"print_4stems_fallback", "st_4stems_fallback"}

\* C16: in a run that selected FourStem and whose separation stage gave an
\* instrumental path that is not a mix of the drums, bass and other stems, a
\* degradation notice has been recorded.
C16_DegradationNoticed ==
    ( /\ entry = "app"
      /\ separation_model = "spleeter:4stems"
      /\ instrumental_path # NoPath
      /\ ~OkCall("ffmpeg_mix") )
    => notices \cap DegradationNotices # {}

\* The audio file the caller passed to separate_vocals.
CallerAudio ==
    IF entry = "app" THEN audio_path ELSE CHOOSE a \in DirectAudio : a \in files

\* The last call of separate_vocals was made with 2stems, or with 4stems and
\* its 4stems separation run exited non-zero.
EndsAsTwoStem ==
    /\ sv_ret.outcome # "none"
    /\ \/ sv_ret.top_model = "spleeter:2stems"
       \/ /\ sv_ret.top_model = "spleeter:4stems"
          /\ \E i \in Idx : /\ calls[i].site = sv_ret.site
                            /\ calls[i].eng = "spleeter"
                            /\ calls[i].model = "spleeter:4stems"
                            /\ ~calls[i].ok

\* The outcome of a call of separate with TwoStem: one 2stems run on the
\* caller's audio; its accompaniment file when the run exits zero, its
\* failure otherwise.
TwoStemOutcome ==
    LET reruns == {i \in Idx : /\ calls[i].site = sv_ret.site
                             /\ calls[i].eng = "spleeter"
                             /\ calls[i].model = "spleeter:2stems"}
    IN /\ Cardinality(reruns) = 1
       /\ \A i \in reruns :
             /\ calls[i].input = CallerAudio
             /\ IF calls[i].ok
                THEN /\ sv_ret.outcome = "return"
                     /\ sv_ret.path = Join(Join(temp_dir, D(SplitExt0(BaseName(CallerAudio)))),
                                           F("accompaniment", "wav"))
                     /\ sv_ret.path \in files
                ELSE /\ sv_ret.outcome = "raise"
                     /\ sv_ret.eng = "spleeter"
                     /\ sv_ret.model = "spleeter:2stems"

\* C19: a call of separate with FourStem whose separation run fails ends the
\* way a call with TwoStem on the same audio and directory ends: the same
\* returned path or the same error, the 2stems run being made on the
\* original audio.
C19_FallbackEquivalence ==
    EndsAsTwoStem => TwoStemOutcome

C19_Witness ==
    /\ sv_ret.top_model = "spleeter:4stems"
    /\ EndsAsTwoStem
    /\ sv_ret.outcome = "return"
    /\ sv_ret.path \in files

\* Milliseconds of a timedelta.
TotalMs(td) == td.days * 86400000 + td.seconds * 1000 + td.microseconds \div 1000

AllWhitespace(t) == \A k \in 1..Len(t) : t[k] \in Whitespace

\* trimmed is text without its leading and trailing whitespace.
IsTrimOf(trimmed, text) ==
    /\ \E a \in 0..Len(text) : \E b \in a..Len(text) :
          /\ trimmed = SubSeq(text, a + 1, b)
          /\ AllWhitespace(SubSeq(text, 1, a))
          /\ AllWhitespace(SubSeq(text, b + 1, Len(text)))
    /\ trimmed # << >> => /\ trimmed[1] \notin Whitespace
                          /\ trimmed[Len(trimmed)] \notin Whitespace

FilesIn(dir) == { f \in disk : f[1] = D(dir) }

\* C18: two runs interleaved in any way each touch only files of their own
\* working directory, which is not the other run's; no file is touched by
\* both runs; and the files of a run's directory are exactly those the run
\* itself wrote and did not delete, as when it runs alone.
C18_RunsIsolated ==
    \A r \in DOMAIN runs :
        /\ \A f \in runs[r].touched : f[1] = D(runs[r].dir)
        /\ runs[r].dir # "" => FilesIn(runs[r].dir) = runs[r].view
        /\ \A q \in DOMAIN runs :
              q # r => /\ runs[q].touched \cap runs[r].touched = {}
                       /\ runs[r].dir # "" => runs[q].dir # runs[r].dir

C18_Witness ==
    /\ DOMAIN runs = Runs
    /\ runs[1].pc = "Done"
    /\ runs[2].pc = "Done"
    /\ runs[1].touched # {}
    /\ runs[2].touched # {}
====
